---- MODULE Spec2Model ----
(***************************************************************************)
(* Model of the order service (src/src/domain/service/OrderService.js) and *)
(* of the session token helpers (src/src/utils/jwt.js).                    *)
(*                                                                         *)
(* OrderService is a stateless facade over OrderRepository.  Its handlers  *)
(* are async functions.  A handler runs without interruption up to an      *)
(* await of a repository call; the repository executes the call at some    *)
(* moment, and the handler is resumed with the outcome at a later moment;  *)
(* calls of other requests execute in between.  `pending` is the bag of    *)
(* requests that wait at an await, each with what its calls gave so far.   *)
(* A request enters it in the step in which the repository executes its    *)
(* first call (the moment a request starts is free, so nothing is lost by  *)
(* starting it then), and leaves it in the step that resumes it with the   *)
(* outcome of its last call.  A validation error is thrown before the      *)
(* first await and reaches the caller in the same step.                    *)
(*                                                                         *)
(* OrderRepository, AppError, NotFoundError, utils/state and config are    *)
(* not part of the sources at hand: they are modelled from the             *)
(* specification and kept in separate definitions.                         *)
(***************************************************************************)
EXTENDS Integers, Sequences, FiniteSets, Bags, TLC

VARIABLES
    pedidos,      \* repository: pedido id -> its status, or Absent
    platillos,    \* repository: <<pedido id, platillo id>> -> status, or Absent
    pending,      \* bag of the requests waiting at an await
    response,     \* what this step gave a caller (NoResponse: nothing)
    now,          \* clock, in seconds (the resolution of a token's iat/exp)
    issued,       \* tokens produced by createJWT
    verified      \* what the last verifyJWT call gave its caller

vars == <<pedidos, platillos, pending, response, now, issued, verified>>
orderVars == <<pedidos, platillos, pending, response>>
jwtVars == <<now, issued, verified>>

----------------------------------------------------------------------------
(* Bounds *)

MaxPlatilloId == 1      \* platillo ids are 1..MaxPlatilloId
MaxPending == 2         \* requests waiting at an await at once
MaxItems == 2           \* longest platillos list given to createOrder
MaxClock == 4           \* the clock stops at MaxClock seconds
MaxTokens == 2          \* tokens issued in one run
JwtExpiration == 2      \* config.auth.jwtExpiration, in seconds

PedidoIds == {1}
PlatilloIds == 1..MaxPlatilloId
RestaurantIds == {7}

----------------------------------------------------------------------------
(* JavaScript values that the handlers test for truthiness *)

Undefined == [t |-> "undefined", v |-> 0]
Num(n) == [t |-> "number", v |-> n]

\* !x for x undefined/null or a number
Falsy(x) == x.t = "undefined" \/ (x.t = "number" /\ x.v = 0)

NoList == [t |-> "undefined", items |-> <<>>]
Arr(s) == [t |-> "array", items |-> s]

----------------------------------------------------------------------------
(* Collaborators that are not in the sources: modelled from the            *)
(* specification (sections 4.1, 6 and 7).                                  *)

\* utils/state: state.Pedido, the enum of status values
Pedido == {"received", "in-preparation", "delivered"}

\* status strings a caller may send
Estados == Pedido \cup {"bogus"}

Absent == "absent"
InitialStatus == "received"

\* new AppError(message, statusCode): 500 unless a code is attached
AppError(message, statusCode) ==
    [kind |-> "AppError", message |-> message,
     statusCode |-> IF Falsy(statusCode) THEN 500 ELSE statusCode.v]

\* new NotFoundError(message)
NotFoundError(message) ==
    [kind |-> "NotFoundError", message |-> message, statusCode |-> 404]

\* errors a repository call may throw; statusCode 0 stands for "none"
CollabErrors ==
    { [kind |-> "Error", message |-> <<"connection lost">>, statusCode |-> 0],
      [kind |-> "Error", message |-> <<"ER_NO_REFERENCED_ROW">>, statusCode |-> 409] }

\* OrderRepository.findAll: the rows of the restaurant's pedidos
findAll(restaurantId) == {id \in PedidoIds : pedidos[id] # Absent}

\* OrderRepository.findPlatilloById: zero or one row
findPlatilloById(pedidoId, platilloId) ==
    IF platillos[<<pedidoId, platilloId>>] # Absent THEN 1 ELSE 0

\* OrderRepository.updatePlatilloStatus: the store after the write
repoUpdatePlatilloStatus(pedidoId, platilloId, estado) ==
    IF platillos[<<pedidoId, platilloId>>] # Absent
    THEN [platillos EXCEPT ![<<pedidoId, platilloId>>] = estado]
    ELSE platillos

\* OrderRepository.updateStatusById: the store after the write
updateStatusById(id, estado) ==
    IF pedidos[id] # Absent THEN [pedidos EXCEPT ![id] = estado] ELSE pedidos

\* the platillo ids named by the items of a list
PlatilloIdsOf(items) ==
    {items[i].platilloId.v : i \in 1..Len(items)} \cap PlatilloIds

\* OrderRepository.create: header and item rows are inserted as one unit
repoCreatePlatillos(id, items) ==
    [k \in PedidoIds \X PlatilloIds |->
        IF k[1] = id
        THEN (IF k[2] \in PlatilloIdsOf(items) THEN InitialStatus ELSE Absent)
        ELSE platillos[k]]

\* OrderRepository.cancelOrder: the whole pedido, or one platillo of it
repoCancelPedidos(pedidoId, platilloId) ==
    IF Falsy(platilloId) THEN [pedidos EXCEPT ![pedidoId] = Absent] ELSE pedidos

repoCancelPlatillos(pedidoId, platilloId) ==
    [k \in PedidoIds \X PlatilloIds |->
        IF k[1] = pedidoId /\ (Falsy(platilloId) \/ k[2] = platilloId.v)
        THEN Absent ELSE platillos[k]]


----------------------------------------------------------------------------
(* A request waiting at an await: the handler, its arguments, the          *)
(* repository calls it made so far, in order, and obs, what the last call  *)
(* gave when the repository executed it: the error it threw (Ok: none),    *)
(* the rows of a lookup, the affectedRows of the write of                  *)
(* updatePlatilloStatus (-1: not called), and the stored status of the     *)
(* target before and after the write of an update (Absent: no such row,    *)
(* or no write).  What the caller gets is the same record with the outcome *)
(* (kind "ok" or the class of the error thrown, its message as the parts   *)
(* of the template literal, its statusCode).                               *)

NoArgs == [pedidoId |-> 0, platilloId |-> Undefined, estado |-> "",
           platillos |-> NoList]

Ok == [kind |-> "ok", message |-> <<>>, statusCode |-> 200]

NoObs == [rows |-> -1, affectedRows |-> -1, thrown |-> Ok,
          before |-> Absent, after |-> Absent]

Call(op, args, calls, obs) ==
    [op |-> op, args |-> args, calls |-> calls, obs |-> obs]

Resp(req, outcome) ==
    [op |-> req.op, args |-> req.args, outcome |-> outcome,
     calls |-> req.calls, obs |-> req.obs]

NoResponse == Resp(Call("none", NoArgs, <<>>, NoObs), Ok)

\* the outcome of a repository call: it returns, or it throws
Returns == Ok
CallOutcomes == {Returns} \cup CollabErrors

\* the request waits for the outcome of its call c of handler op
Awaits(req, op, c) ==
    /\ BagIn(req, pending)
    /\ req.op = op
    /\ req.calls # <<>>
    /\ req.calls[Len(req.calls)] = c

\* the handler reaches `await OrderRepository...`: the request waits
Await(req) ==
    /\ BagCardinality(pending) < MaxPending
    /\ pending' = pending (+) SetToBag({req})
    /\ response' = NoResponse

\* the handler, resumed, returns or throws: the caller gets the outcome
Settle(req, outcome) ==
    /\ pending' = pending (-) SetToBag({req})
    /\ response' = Resp(req, outcome)

\* the handler throws before its first await
Throw(op, args, error) ==
    /\ response' = Resp(Call(op, args, <<>>, NoObs), error)
    /\ UNCHANGED pending

----------------------------------------------------------------------------
(* OrderService *)

\* Object.values(state.Pedido)
validStates == Pedido

\* the parts of `Estado inválido. Estados permitidos: ${validStates.join(", ")}.`
EstadoInvalido ==
    <<"Estado inválido. Estados permitidos: ",
      "received, in-preparation, delivered", ".">>

\* getAll(restaurantId) up to its await; r is the outcome of
\* OrderRepository.findAll
getAll(restaurantId, r) ==
    /\ Await(Call("getAll", NoArgs, <<"findAll">>,
                  IF r # Returns THEN [NoObs EXCEPT !.thrown = r]
                  ELSE [NoObs EXCEPT !.rows = Cardinality(findAll(restaurantId))]))
    /\ UNCHANGED <<pedidos, platillos>>

\* getAll resumed
getAllReturn(req) ==
    /\ Awaits(req, "getAll", "findAll")
    /\ Settle(req, IF req.obs.thrown # Ok THEN req.obs.thrown
                   ELSE IF req.obs.rows = 0
                   THEN NotFoundError(<<"No se encontraron pedidos.">>)
                   ELSE Ok)
    /\ UNCHANGED <<pedidos, platillos>>

\* getOrder(id) up to its await; r is the outcome of
\* OrderRepository.findOrderById
getOrder(id, r) ==
    /\ Await(Call("getOrder", [NoArgs EXCEPT !.pedidoId = id],
                  <<"findOrderById">>, [NoObs EXCEPT !.thrown = r]))
    /\ UNCHANGED <<pedidos, platillos>>

\* getOrder resumed, without its try/catch
getOrderReturnNoCatch(req) ==
    /\ Awaits(req, "getOrder", "findOrderById")
    /\ Settle(req, req.obs.thrown)
    /\ UNCHANGED <<pedidos, platillos>>

\* getOrder resumed
getOrderReturn(req) ==
    /\ Awaits(req, "getOrder", "findOrderById")
    /\ Settle(req, IF req.obs.thrown # Ok
                   THEN AppError(<<"Error al obtener el pedido con ID ",
                                   ToString(req.args.pedidoId), ": ">>
                                 \o req.obs.thrown.message, Undefined)
                   ELSE Ok)
    /\ UNCHANGED <<pedidos, platillos>>

UpdatePlatilloArgs(pedidoId, platilloId, estado) ==
    [NoArgs EXCEPT !.pedidoId = pedidoId, !.platilloId = Num(platilloId),
                   !.estado = estado]

\* the lookup of updatePlatilloStatus; r is the outcome of
\* OrderRepository.findPlatilloById
PlatilloLookup(pedidoId, platilloId, estado, r) ==
    Call("updatePlatilloStatus", UpdatePlatilloArgs(pedidoId, platilloId, estado),
         <<"findPlatilloById">>,
         IF r # Returns THEN [NoObs EXCEPT !.thrown = r]
         ELSE [NoObs EXCEPT !.rows = findPlatilloById(pedidoId, platilloId)])

\* updatePlatilloStatus with the validation of estado left out
updatePlatilloStatusUnchecked(pedidoId, platilloId, estado, r) ==
    /\ Await(PlatilloLookup(pedidoId, platilloId, estado, r))
    /\ UNCHANGED <<pedidos, platillos>>

\* updatePlatilloStatus(pedidoId, platilloId, estado) up to its first await
updatePlatilloStatus(pedidoId, platilloId, estado, r) ==
    /\ IF estado \notin validStates
       THEN Throw("updatePlatilloStatus",
                  UpdatePlatilloArgs(pedidoId, platilloId, estado),
                  AppError(EstadoInvalido, Num(400)))
       ELSE Await(PlatilloLookup(pedidoId, platilloId, estado, r))
    /\ UNCHANGED <<pedidos, platillos>>

\* platillo.length, taken for true whatever the lookup returned
PlatilloFoundAlways(req) == TRUE

\* platillo.length
PlatilloFound(req) == req.obs.rows # 0

\* updatePlatilloStatus resumed after its lookup, which threw or found nothing
updatePlatilloStatusNotFound(req) ==
    /\ Awaits(req, "updatePlatilloStatus", "findPlatilloById")
    /\ req.obs.thrown # Ok \/ ~PlatilloFound(req)
    /\ Settle(req, IF req.obs.thrown # Ok THEN req.obs.thrown
                   ELSE NotFoundError(<<"Platillo con ID ",
                                        ToString(req.args.platilloId.v),
                                        " no encontrado en el pedido ",
                                        ToString(req.args.pedidoId), ".">>))
    /\ UNCHANGED <<pedidos, platillos>>

\* updatePlatilloStatus resumed after a lookup that found the platillo, up to
\* its second await; r is the outcome of OrderRepository.updatePlatilloStatus.
\* Resuming changes nothing a caller or the repository sees, so it is one
\* step with the repository executing the write.
updatePlatilloStatusWrite(req, r) ==
    LET pedidoId == req.args.pedidoId
        platilloId == req.args.platilloId.v
        estado == req.args.estado
        written == repoUpdatePlatilloStatus(pedidoId, platilloId, estado)
        calls == Append(req.calls, "updatePlatilloStatus")
    IN  /\ Awaits(req, "updatePlatilloStatus", "findPlatilloById")
        /\ req.obs.thrown = Ok
        /\ PlatilloFound(req)
        /\ response' = NoResponse
        /\ IF r # Returns
           THEN /\ pending' = (pending (-) SetToBag({req})) (+)
                      SetToBag({Call(req.op, req.args, calls,
                                     [req.obs EXCEPT !.thrown = r])})
                /\ UNCHANGED <<pedidos, platillos>>
           ELSE /\ pending' = (pending (-) SetToBag({req})) (+)
                      SetToBag({Call(req.op, req.args, calls,
                          [req.obs EXCEPT
                              !.affectedRows = findPlatilloById(pedidoId, platilloId),
                              !.before = platillos[<<pedidoId, platilloId>>],
                              !.after = written[<<pedidoId, platilloId>>]])})
                /\ platillos' = written
                /\ UNCHANGED pedidos

\* updatePlatilloStatus resumed after its write, confirming whatever
\* affectedRows is
updatePlatilloStatusReturnNoRowCheck(req) ==
    /\ Awaits(req, "updatePlatilloStatus", "updatePlatilloStatus")
    /\ Settle(req, IF req.obs.thrown # Ok THEN req.obs.thrown
                   ELSE [Ok EXCEPT !.message = <<"Estado actualizado correctamente.">>])
    /\ UNCHANGED <<pedidos, platillos>>

\* updatePlatilloStatus resumed after its write
updatePlatilloStatusReturn(req) ==
    /\ Awaits(req, "updatePlatilloStatus", "updatePlatilloStatus")
    /\ Settle(req, IF req.obs.thrown # Ok THEN req.obs.thrown
                   ELSE IF req.obs.affectedRows = 0
                   THEN AppError(<<"No se pudo actualizar el estado del platillo.">>,
                                 Num(500))
                   ELSE [Ok EXCEPT !.message = <<"Estado actualizado correctamente.">>])
    /\ UNCHANGED <<pedidos, platillos>>

\* the write of updateOrderStatus; r is the outcome of
\* OrderRepository.updateStatusById
OrderWrite(id, estado, r) ==
    Call("updateOrderStatus", [NoArgs EXCEPT !.pedidoId = id, !.estado = estado],
         <<"updateStatusById">>,
         IF r # Returns THEN [NoObs EXCEPT !.thrown = r]
         ELSE [NoObs EXCEPT !.before = pedidos[id],
                            !.after = updateStatusById(id, estado)[id]])

\* updateOrderStatus with the validation of estado left out
updateOrderStatusUnchecked(id, estado, r) ==
    /\ Await(OrderWrite(id, estado, r))
    /\ pedidos' = IF r # Returns THEN pedidos ELSE updateStatusById(id, estado)
    /\ UNCHANGED platillos

\* updateOrderStatus(id, estado) up to its await
updateOrderStatus(id, estado, r) ==
    IF estado \notin validStates
    THEN /\ Throw("updateOrderStatus",
                  [NoArgs EXCEPT !.pedidoId = id, !.estado = estado],
                  AppError(EstadoInvalido, Undefined))
         /\ UNCHANGED <<pedidos, platillos>>
    ELSE /\ Await(OrderWrite(id, estado, r))
         /\ pedidos' = IF r # Returns THEN pedidos ELSE updateStatusById(id, estado)
         /\ UNCHANGED platillos

\* updateOrderStatus resumed
updateOrderStatusReturn(req) ==
    /\ Awaits(req, "updateOrderStatus", "updateStatusById")
    /\ Settle(req, IF req.obs.thrown # Ok THEN req.obs.thrown ELSE Ok)
    /\ UNCHANGED <<pedidos, platillos>>

\* !platillo.platilloId || !platillo.cantidad
ItemInvalid(platillo) == Falsy(platillo.platilloId) \/ Falsy(platillo.cantidad)

\* the call of createOrder; r is the outcome of OrderRepository.create.  The
\* repository numbers the new pedido with a free id; the model has finitely
\* many, so a create returns only while one is free.
Create(orderPlatillos, r) ==
    LET req == Call("createOrder", [NoArgs EXCEPT !.platillos = orderPlatillos],
                    <<"create">>, [NoObs EXCEPT !.thrown = r])
    IN  /\ Await(req)
        /\ IF r # Returns
           THEN UNCHANGED <<pedidos, platillos>>
           ELSE \E id \in PedidoIds :
                  /\ pedidos[id] = Absent
                  /\ pedidos' = [pedidos EXCEPT ![id] = InitialStatus]
                  /\ platillos' = repoCreatePlatillos(id, orderPlatillos.items)

\* createOrder testing only !platillos, not platillos.length === 0
createOrderNoLengthCheck(orderPlatillos, r) ==
    LET args == [NoArgs EXCEPT !.platillos = orderPlatillos]
        items == orderPlatillos.items
    IN  IF orderPlatillos.t = "undefined"
        THEN /\ Throw("createOrder", args,
                      AppError(<<"El pedido debe incluir al menos un platillo.">>,
                               Undefined))
             /\ UNCHANGED <<pedidos, platillos>>
        ELSE IF \E i \in 1..Len(items) : ItemInvalid(items[i])
        THEN /\ Throw("createOrder", args,
                      AppError(<<"Cada platillo debe incluir platilloId y cantidad.">>,
                               Undefined))
             /\ UNCHANGED <<pedidos, platillos>>
        ELSE Create(orderPlatillos, r)

\* createOrder(orderData, platillos) up to its await
createOrder(orderPlatillos, r) ==
    LET args == [NoArgs EXCEPT !.platillos = orderPlatillos]
        items == orderPlatillos.items
    IN  IF orderPlatillos.t = "undefined" \/ Len(items) = 0
        THEN /\ Throw("createOrder", args,
                      AppError(<<"El pedido debe incluir al menos un platillo.">>,
                               Undefined))
             /\ UNCHANGED <<pedidos, platillos>>
        ELSE IF \E i \in 1..Len(items) : ItemInvalid(items[i])
        THEN /\ Throw("createOrder", args,
                      AppError(<<"Cada platillo debe incluir platilloId y cantidad.">>,
                               Undefined))
             /\ UNCHANGED <<pedidos, platillos>>
        ELSE Create(orderPlatillos, r)

\* createOrder resumed
createOrderReturn(req) ==
    /\ Awaits(req, "createOrder", "create")
    /\ Settle(req, IF req.obs.thrown # Ok THEN req.obs.thrown ELSE Ok)
    /\ UNCHANGED <<pedidos, platillos>>

\* cancelOrder(pedidoId, platilloId = null) up to its await; r is the outcome
\* of OrderRepository.cancelOrder
cancelOrder(pedidoId, platilloId, r) ==
    /\ Await(Call("cancelOrder",
                  [NoArgs EXCEPT !.pedidoId = pedidoId, !.platilloId = platilloId],
                  <<"cancelOrder">>, [NoObs EXCEPT !.thrown = r]))
    /\ IF r # Returns
       THEN UNCHANGED <<pedidos, platillos>>
       ELSE /\ pedidos' = repoCancelPedidos(pedidoId, platilloId)
            /\ platillos' = repoCancelPlatillos(pedidoId, platilloId)

\* cancelOrder resumed, always reporting a failed "pedido" and dropping the
\* error's code
cancelOrderReturnPedidoOnly(req) ==
    /\ Awaits(req, "cancelOrder", "cancelOrder")
    /\ Settle(req, IF req.obs.thrown # Ok
                   THEN AppError(<<"Error al cancelar el ", "pedido", ": ">>
                                 \o req.obs.thrown.message, Undefined)
                   ELSE Ok)
    /\ UNCHANGED <<pedidos, platillos>>

\* cancelOrder resumed
cancelOrderReturn(req) ==
    /\ Awaits(req, "cancelOrder", "cancelOrder")
    /\ Settle(req, IF req.obs.thrown # Ok
                   THEN AppError(<<"Error al cancelar el ",
                                   IF ~Falsy(req.args.platilloId) THEN "platillo"
                                                                  ELSE "pedido",
                                   ": ">> \o req.obs.thrown.message,
                                 IF req.obs.thrown.statusCode # 0
                                 THEN Num(req.obs.thrown.statusCode)
                                 ELSE Num(500))
                   ELSE Ok)
    /\ UNCHANGED <<pedidos, platillos>>

----------------------------------------------------------------------------
(* Session tokens (utils/jwt.js).  The jsonwebtoken library and the        *)
(* configuration are not in the sources: sign and verify are modelled from *)
(* the specification (section 4.3): a token carries the claims, its issue  *)
(* time and its expiration, under a signature over all three.              *)

JwtSecret == "config.auth.jwtSecret"
NoExpiry == -1

Signature(secret, payload, iat, exp) ==
    [secret |-> secret, over |-> <<payload, iat, exp>>]

\* jwt.sign(payload, secret, {expiresIn}) at the current time
sign(payload, secret, expiresIn) ==
    LET exp == IF expiresIn = NoExpiry THEN NoExpiry ELSE now + expiresIn
    IN  [payload |-> payload, iat |-> now, exp |-> exp,
         sig |-> Signature(secret, payload, now, exp)]

\* jwt.verify(token, secret) at the current time
verify(token, secret) ==
    IF token.sig # Signature(secret, token.payload, token.iat, token.exp)
    THEN [kind |-> "JsonWebTokenError", message |-> "invalid signature",
          payload |-> <<>>, iat |-> NoExpiry, exp |-> NoExpiry]
    ELSE IF token.exp # NoExpiry /\ now >= token.exp
    THEN [kind |-> "TokenExpiredError", message |-> "jwt expired",
          payload |-> <<>>, iat |-> NoExpiry, exp |-> NoExpiry]
    ELSE [kind |-> "ok", message |-> "",
          payload |-> token.payload, iat |-> token.iat, exp |-> token.exp]

\* createJWT without the expiresIn option
createJWTNoExpiry(data) == sign(data, JwtSecret, NoExpiry)

\* createJWT(data)
createJWT(data) == sign(data, JwtSecret, JwtExpiration)

\* verifyJWT(token)
verifyJWT(token) == verify(token, JwtSecret)

\* the claims callers embed, as sequences of <<key, value>> pairs
ClaimSets == { <<>>, << <<"role", "customer">> >>,
               << <<"role", "admin">>, <<"id", "7">> >> }

\* what a client may present: a token as issued, a token whose expiration
\* was pushed back under the old signature, a token signed with another secret
Tampered(t) == [t EXCEPT !.exp = t.exp + MaxClock]
Forged(t) == [t EXCEPT !.sig = Signature("guess", t.payload, t.iat, t.exp)]
Presented == issued \cup {Tampered(t) : t \in issued} \cup {Forged(t) : t \in issued}

NoVerify == [token |-> <<>>, at |-> -1, result |-> <<>>]

\* a second passes
Tick ==
    /\ now < MaxClock
    /\ now' = now + 1
    /\ UNCHANGED <<issued, verified>>
    /\ UNCHANGED orderVars

\* a login: createJWT(data) hands a token to a client
CreateToken(data) ==
    /\ Cardinality(issued) < MaxTokens
    /\ issued' = issued \cup {createJWT(data)}
    /\ UNCHANGED <<now, verified>>
    /\ UNCHANGED orderVars

\* a request: verifyJWT(token) on the token the client presents
VerifyToken(token) ==
    /\ verified' = [token |-> token, at |-> now, result |-> verifyJWT(token)]
    /\ UNCHANGED <<now, issued>>
    /\ UNCHANGED orderVars

----------------------------------------------------------------------------
(* Inputs *)

Item(platilloId, cantidad) == [platilloId |-> platilloId, cantidad |-> cantidad]

\* the item ids a caller may name in cancelOrder: none, or a platillo id
OptionalPlatilloIds == {Undefined} \cup {Num(i) : i \in PlatilloIds}

\* the platillos lists callers send while the other handlers run
SampleLists ==
    { NoList, Arr(<<>>),
      Arr(<<Item(Num(1), Num(1))>>),
      Arr(<<Item(Num(1), Num(2)), Item(Num(MaxPlatilloId), Num(1))>>),
      Arr(<<Item(Num(1), Undefined)>>) }

\* every item a request body can hold: a field is missing, zero, negative or set
Items ==
    { Item(p, c) : p \in {Undefined, Num(1)},
                   c \in {Undefined, Num(-1), Num(0), Num(1)} }

RECURSIVE SeqsUpTo(_, _)
SeqsUpTo(S, n) ==
    IF n = 0 THEN {<<>>}
    ELSE LET shorter == SeqsUpTo(S, n - 1)
         IN  shorter \cup {Append(s, x) : s \in shorter, x \in S}

\* every platillos argument: absent, or a list of at most MaxItems items
PlatilloLists == {NoList} \cup {Arr(s) : s \in SeqsUpTo(Items, MaxItems)}

\* the requests that wait at an await
Waiting == BagToSet(pending)

----------------------------------------------------------------------------
(* Specifications *)

Init ==
    /\ pedidos = [id \in PedidoIds |-> Absent]
    /\ platillos = [k \in PedidoIds \X PlatilloIds |-> Absent]
    /\ pending = EmptyBag
    /\ response = NoResponse
    /\ now = 0
    /\ issued = {}
    /\ verified = NoVerify

\* a request to each handler, on any input and any outcome of its repository
\* call, and the resumption of each handler
GetAll ==
    /\ \E rid \in RestaurantIds, r \in CallOutcomes : getAll(rid, r)
    /\ UNCHANGED jwtVars

GetAllReturn ==
    /\ \E req \in Waiting : getAllReturn(req)
    /\ UNCHANGED jwtVars

GetOrder ==
    /\ \E id \in PedidoIds, r \in CallOutcomes : getOrder(id, r)
    /\ UNCHANGED jwtVars

GetOrderReturn ==
    /\ \E req \in Waiting : getOrderReturn(req)
    /\ UNCHANGED jwtVars

UpdatePlatilloStatus ==
    /\ \E id \in PedidoIds, pl \in PlatilloIds, e \in Estados, r \in CallOutcomes :
           updatePlatilloStatus(id, pl, e, r)
    /\ UNCHANGED jwtVars

UpdatePlatilloStatusNotFound ==
    /\ \E req \in Waiting : updatePlatilloStatusNotFound(req)
    /\ UNCHANGED jwtVars

UpdatePlatilloStatusWrite ==
    /\ \E req \in Waiting, r \in CallOutcomes : updatePlatilloStatusWrite(req, r)
    /\ UNCHANGED jwtVars

UpdatePlatilloStatusReturn ==
    /\ \E req \in Waiting : updatePlatilloStatusReturn(req)
    /\ UNCHANGED jwtVars

UpdateOrderStatus ==
    /\ \E id \in PedidoIds, e \in Estados, r \in CallOutcomes :
           updateOrderStatus(id, e, r)
    /\ UNCHANGED jwtVars

UpdateOrderStatusReturn ==
    /\ \E req \in Waiting : updateOrderStatusReturn(req)
    /\ UNCHANGED jwtVars

CreateOrder ==
    /\ \E l \in SampleLists, r \in CallOutcomes : createOrder(l, r)
    /\ UNCHANGED jwtVars

CreateOrderReturn ==
    /\ \E req \in Waiting : createOrderReturn(req)
    /\ UNCHANGED jwtVars

CancelOrder ==
    /\ \E id \in PedidoIds, pl \in OptionalPlatilloIds, r \in CallOutcomes :
           cancelOrder(id, pl, r)
    /\ UNCHANGED jwtVars

CancelOrderReturn ==
    /\ \E req \in Waiting : cancelOrderReturn(req)
    /\ UNCHANGED jwtVars

\* createOrder on every platillos argument of at most MaxItems items
CreateOrderAny ==
    /\ \E l \in PlatilloLists, r \in CallOutcomes : createOrder(l, r)
    /\ UNCHANGED jwtVars

\* the order service: every handler, requests interleaving at their awaits
Next ==
    \/ GetAll
    \/ GetAllReturn
    \/ GetOrder
    \/ GetOrderReturn
    \/ UpdatePlatilloStatus
    \/ UpdatePlatilloStatusNotFound
    \/ UpdatePlatilloStatusWrite
    \/ UpdatePlatilloStatusReturn
    \/ UpdateOrderStatus
    \/ UpdateOrderStatusReturn
    \/ CreateOrder
    \/ CreateOrderReturn
    \/ CancelOrder
    \/ CancelOrderReturn

Spec == Init /\ [][Next]_vars

\* createOrder over its whole input space, and the cancellations that free ids
NextCreate ==
    \/ CreateOrderAny
    \/ CreateOrderReturn
    \/ CancelOrder
    \/ CancelOrderReturn

SpecCreate == Init /\ [][NextCreate]_vars

\* the session tokens: logins, requests and the passing of time
Login == \E data \in ClaimSets : CreateToken(data)

Request == \E token \in Presented : VerifyToken(token)

NextJWT == Tick \/ Login \/ Request

SpecJWT == Init /\ [][NextJWT]_vars

----------------------------------------------------------------------------
(* Properties *)

\* the request just answered made the repository call named c
Called(c) == \E i \in 1..Len(response.calls) : response.calls[i] = c

\* the message m holds the text t, part by part
Contains(m, t) ==
    \E k \in 0..(Len(m) - Len(t)) : \A i \in 1..Len(t) : m[k + i] = t[i]

IsUpdate == response.op \in {"updateOrderStatus", "updatePlatilloStatus"}

\* an error raised by a handler's own validation, before any repository call
ValidationFailure ==
    /\ response.op \in {"updateOrderStatus", "updatePlatilloStatus", "createOrder"}
    /\ response.outcome.kind = "AppError"
    /\ response.calls = <<>>

\* C1: an update with a status outside the vocabulary fails and makes no
\* repository call, neither the lookup nor a write: no update waiting for the
\* repository carries such a status, and an update that succeeds carried a
\* status of the vocabulary.
C1_InvalidStatusFailsWithoutCalls ==
    /\ \A req \in Waiting :
          req.op \in {"updateOrderStatus", "updatePlatilloStatus"}
              => req.args.estado \in Pedido
    /\ IsUpdate =>
          /\ response.args.estado \notin Pedido =>
                /\ response.outcome.kind # "ok"
                /\ response.calls = <<>>
                /\ response.obs = NoObs
          /\ response.outcome.kind = "ok" => response.args.estado \in Pedido

\* a stored pedido was asked a status outside the vocabulary
C1_Witness ==
    /\ response.op = "updateOrderStatus"
    /\ response.args.estado = "bogus"
    /\ response.outcome.kind = "AppError"
    /\ pedidos[response.args.pedidoId] # Absent

\* C2: every validation failure (an invalid status in updatePlatilloStatus or
\* updateOrderStatus, an empty list or an item lacking a field in createOrder)
\* carries the status code 400.
C2_ValidationFailuresCarry400 ==
    ValidationFailure => response.outcome.statusCode = 400

\* C3: createOrder with an absent or empty platillos list fails with the
\* validation error for it and never calls the repository's create: every
\* create call, answered or still awaited, carried at least one item.
C3_EmptyOrderNeverCreated ==
    /\ \A req \in Waiting :
          req.op = "createOrder" =>
              /\ req.args.platillos.t = "array"
              /\ Len(req.args.platillos.items) >= 1
    /\ response.op = "createOrder" =>
          /\ (response.args.platillos.t = "undefined"
                \/ Len(response.args.platillos.items) = 0) =>
                /\ response.outcome.kind = "AppError"
                /\ response.outcome.message =
                      <<"El pedido debe incluir al menos un platillo.">>
                /\ response.calls = <<>>
          /\ Called("create") =>
                /\ response.args.platillos.t = "array"
                /\ Len(response.args.platillos.items) >= 1

C3_Witness ==
    /\ response.op = "createOrder"
    /\ response.args.platillos = Arr(<<>>)
    /\ response.outcome.kind = "AppError"
    /\ response.calls = <<>>

\* an item without a dish identifier, or without a quantity of at least 1
LacksField(platillo) ==
    \/ platillo.platilloId.t = "undefined"
    \/ platillo.cantidad.t = "undefined"
    \/ platillo.cantidad.v <= 0

\* C4: createOrder with an item, at any position, that lacks a dish identifier
\* or whose quantity is missing or not positive fails with a validation error
\* and never calls the repository's create.
C4_InvalidItemNeverCreated ==
    ( /\ response.op = "createOrder"
      /\ \E i \in 1..Len(response.args.platillos.items) :
             LacksField(response.args.platillos.items[i]) )
    => /\ response.outcome.kind = "AppError"
       /\ response.calls = <<>>

\* C5: an updatePlatilloStatus whose lookup returned no rows fails with
\* NotFound and never issues the write; the write is issued, and a request
\* waits to issue it, only after a lookup that returned at least one row.
C5_NoWriteWithoutRow ==
    /\ \A req \in Waiting :
          (\E i \in 1..Len(req.calls) : req.calls[i] = "updatePlatilloStatus")
              => req.obs.rows >= 1
    /\ response.op = "updatePlatilloStatus" =>
          /\ response.obs.rows = 0 =>
                /\ response.outcome.kind = "NotFoundError"
                /\ ~Called("updatePlatilloStatus")
          /\ Called("updatePlatilloStatus") => response.obs.rows >= 1

C5_Witness ==
    /\ response.op = "updatePlatilloStatus"
    /\ response.args.estado \in Pedido
    /\ response.obs.rows = 0
    /\ response.outcome.kind = "NotFoundError"
    /\ response.calls = <<"findPlatilloById">>

\* C6: an updatePlatilloStatus whose write affected zero rows fails with an
\* AppError of status 500 and does not confirm; it confirms only when the
\* write affected at least one row.
C6_ZeroRowsIsServerError ==
    response.op = "updatePlatilloStatus" =>
        /\ response.obs.affectedRows = 0 =>
              /\ response.outcome.kind = "AppError"
              /\ response.outcome.statusCode = 500
        /\ response.outcome.kind = "ok" => response.obs.affectedRows >= 1

\* the platillo was there at the lookup and gone at the write
C6_Witness ==
    /\ response.op = "updatePlatilloStatus"
    /\ response.obs.rows = 1
    /\ response.obs.affectedRows = 0
    /\ response.outcome.kind = "AppError"
    /\ response.outcome.statusCode = 500

\* C7: a failed cancelOrder raises an AppError whose message names "platillo"
\* exactly when a platilloId was given and "pedido" exactly when none was, and
\* which carries the repository error's status code, or 500 when it has none.
C7_CancelFailureNamesTarget ==
    (response.op = "cancelOrder" /\ response.obs.thrown # Ok) =>
        /\ response.outcome.kind = "AppError"
        /\ Contains(response.outcome.message, <<"platillo">>)
              <=> response.args.platilloId # Undefined
        /\ Contains(response.outcome.message, <<"pedido">>)
              <=> response.args.platilloId = Undefined
        /\ response.outcome.statusCode =
              IF response.obs.thrown.statusCode = 0 THEN 500
              ELSE response.obs.thrown.statusCode

C7_Witness ==
    /\ response.op = "cancelOrder"
    /\ response.args.platilloId = Num(1)
    /\ response.obs.thrown.statusCode = 409
    /\ response.outcome.kind = "AppError"
    /\ response.outcome.statusCode = 409
    /\ Contains(response.outcome.message, <<"platillo">>)

\* the handlers that wrap their repository call in try/catch
Wrapping == {"getOrder", "cancelOrder"}

\* the failed repository call was the handler's last, and no call was repeated
NoRetry ==
    \A i, j \in 1..Len(response.calls) :
        response.calls[i] = response.calls[j] => i = j

\* C8 as claimed: in every handler an error thrown by a repository call
\* reaches the caller as an AppError whose message holds the error's text,
\* and no call is retried.
C8_EveryHandlerWraps ==
    response.obs.thrown # Ok =>
        /\ response.outcome.kind = "AppError"
        /\ Contains(response.outcome.message, response.obs.thrown.message)
        /\ NoRetry

\* C8 as amended: getOrder and cancelOrder re-raise the repository's error as
\* an AppError whose message holds the error's text; in getAll,
\* updatePlatilloStatus, updateOrderStatus and createOrder the repository's
\* error reaches the caller as thrown; no handler retries a call.
C8_OnlyGetOrderAndCancelWrap ==
    response.obs.thrown # Ok =>
        /\ response.op \in Wrapping =>
              /\ response.outcome.kind = "AppError"
              /\ Contains(response.outcome.message, response.obs.thrown.message)
        /\ response.op \notin Wrapping => response.outcome = response.obs.thrown
        /\ NoRetry

C8_Witness ==
    /\ response.op = "getOrder"
    /\ response.obs.thrown \in CollabErrors
    /\ response.outcome.kind = "AppError"
    /\ Contains(response.outcome.message, response.obs.thrown.message)

\* C9: every stored status, of a pedido or of a platillo, is a member of the
\* vocabulary, whatever updates were made; and an update with a member of the
\* vocabulary whose write found its target is not rejected and stored the new
\* status, whatever the status it replaced.
C9_StatusesStayInVocabulary ==
    /\ \A id \in PedidoIds : pedidos[id] \in Pedido \cup {Absent}
    /\ \A k \in PedidoIds \X PlatilloIds : platillos[k] \in Pedido \cup {Absent}
    /\ \A req \in Waiting : req.obs.after \in Pedido \cup {Absent}
    /\ response.obs.after \in Pedido \cup {Absent}
    /\ ( /\ response.op = "updateOrderStatus"
         /\ response.args.estado \in Pedido
         /\ response.obs.thrown = Ok )
       => /\ response.outcome.kind = "ok"
          /\ response.obs.before # Absent =>
                response.obs.after = response.args.estado
    /\ ( /\ response.op = "updatePlatilloStatus"
         /\ response.obs.affectedRows >= 1 )
       => /\ response.outcome.kind = "ok"
          /\ response.obs.after = response.args.estado

\* a delivered pedido went back to received
C9_Witness ==
    /\ response.op = "updateOrderStatus"
    /\ response.obs.before = "delivered"
    /\ response.args.estado = "received"
    /\ response.obs.after = "received"
    /\ response.outcome.kind = "ok"

Unauthorized == {"TokenExpiredError", "JsonWebTokenError"}

\* C10: a verifyJWT of an issued token made before its expiration has elapsed
\* succeeds and returns the embedded claims; one made once the expiration has
\* elapsed fails as unauthorized; an issued token whose expiration has elapsed
\* is not verified again, as issued or with its expiration pushed back.
C10_TokenValidUntilExpiration ==
    /\ verified.token \in issued =>
          /\ verified.at < verified.token.iat + JwtExpiration =>
                /\ verified.result.kind = "ok"
                /\ verified.result.payload = verified.token.payload
          /\ verified.at >= verified.token.iat + JwtExpiration =>
                verified.result.kind \in Unauthorized
    /\ \A t \in issued :
          now >= t.iat + JwtExpiration =>
              /\ verifyJWT(t).kind \in Unauthorized
              /\ verifyJWT(Tampered(t)).kind \in Unauthorized

C10_Witness ==
    /\ verified.token \in issued
    /\ verified.token.payload = << <<"role", "customer">> >>
    /\ verified.at >= verified.token.iat + JwtExpiration
    /\ verified.result.kind = "TokenExpiredError"

====
